---- MODULE Spec2Model ----
(***************************************************************************)
(* A model of pgdb2 (src/pgdb2/__init__.py): the prepared-statement cursor *)
(* mixin PrepareCursor, the connection handle `database`, and the upsert   *)
(* callback built by create_upsert_method.                                 *)
(*                                                                         *)
(* Python strings are modelled as sequences of one-character strings, so   *)
(* that the regular expression formatRe, str.upper, str.join and the       *)
(* f-string concatenations are computed character by character.            *)
(***************************************************************************)
EXTENDS Integers, Sequences, FiniteSets, TLC

VARIABLES
    cmd, cmdId, prepared,          \* one call of PrepareCursor.prepare
    prepCache, history,            \* a cursor: its cache and the calls made on it
    mode, dbUrl, optionFile,       \* the inputs of database.__init__
    pc, cfg, handle, session, caught, raised,   \* a database handle
    skip_cols, update_cols, columns, batches, lastCall   \* the upsert callback

prepVars == <<cmd, cmdId, prepared>>
curVars  == <<prepCache, history>>
dbVars   == <<mode, dbUrl, optionFile, pc, cfg, handle, session, caught, raised>>
upVars   == <<skip_cols, update_cols, columns, batches, lastCall>>
vars     == <<prepVars, curVars, dbVars, upVars>>

(***************************************************************************)
(* Bounds                                                                  *)
(***************************************************************************)
MaxTextLen == 7     \* longest SQL text handed to prepare on its own
MaxCalls   == 4     \* execPrepared calls made on one cursor
MaxModeLen == 3     \* longest mode string
MaxBatches == 2     \* invocations of one upsert callback

(***************************************************************************)
(* Strings                                                                 *)
(***************************************************************************)
Range(f) == {f[i] : i \in DOMAIN f}

SeqsUpTo(S, n) == UNION {[1..k -> S] : k \in 0..n}

\* str(n) for a natural number n
DigitChar(d) == <<"0", "1", "2", "3", "4", "5", "6", "7", "8", "9">>[d + 1]

RECURSIVE Str(_)
Str(n) == IF n < 10 THEN <<DigitChar(n)>>
          ELSE Str(n \div 10) \o <<DigitChar(n % 10)>>

\* sep.join(parts)
RECURSIVE Join(_, _)
Join(sep, parts) ==
    IF parts = <<>> THEN <<>>
    ELSE IF Len(parts) = 1 THEN parts[1]
    ELSE parts[1] \o sep \o Join(sep, Tail(parts))

\* the characters of \w that occur in the texts of this model
WordChars == {"a", "c", "e", "n", "p", "s", "t", "u", "x", "_",
              "0", "1", "2", "3", "4", "5", "6", "7", "8", "9"}

\* the class [\w\.] of formatRe
NameChars == WordChars \cup {"."}

(***************************************************************************)
(* PrepareCursor.formatRe  =  (\%s|\%\([\w\.]+\)s)                         *)
(***************************************************************************)
\* the first index >= i of text that holds no name character (Len+1 if none)
RECURSIVE NameEnd(_, _)
NameEnd(text, i) ==
    IF i > Len(text) \/ text[i] \notin NameChars THEN i
    ELSE NameEnd(text, i + 1)

\* length of the match of formatRe that starts at index i of text, 0 if none
MatchLen(text, i) ==
    IF i + 1 > Len(text) \/ text[i] # "%" THEN 0
    ELSE IF text[i + 1] = "s" THEN 2
    ELSE IF text[i + 1] = "(" THEN
        LET e == NameEnd(text, i + 2)
        IN  IF e > i + 2 /\ e + 1 <= Len(text)
               /\ text[e] = ")" /\ text[e + 1] = "s"
            THEN e + 2 - i
            ELSE 0
    ELSE 0

(***************************************************************************)
(* PrepareCursor.prepare                                                   *)
(***************************************************************************)
\* (mutation) numbers the specifier before recording it
replaceSpec_countsFromZero(specifiers, mo) ==
    [specifiers |-> Append(specifiers, mo),
     repl |-> <<"$">> \o Str(Len(specifiers))]

\* the callback of re.sub: records the specifier, returns its numbered form
replaceSpec(specifiers, mo) ==
    LET appended == Append(specifiers, mo)
    IN  [specifiers |-> appended, repl |-> <<"$">> \o Str(Len(appended))]

\* formatRe.sub(replaceSpec, text) from index i on, left to right
RECURSIVE SubFrom(_, _, _)
SubFrom(text, i, specifiers) ==
    IF i > Len(text) THEN [out |-> <<>>, specifiers |-> specifiers]
    ELSE LET m == MatchLen(text, i)
         IN  IF m > 0
             THEN LET r    == replaceSpec(specifiers, SubSeq(text, i, i + m - 1))
                      rest == SubFrom(text, i + m, r.specifiers)
                  IN  [out |-> r.repl \o rest.out, specifiers |-> rest.specifiers]
             ELSE LET rest == SubFrom(text, i + 1, specifiers)
                  IN  [out |-> <<text[i]>> \o rest.out,
                       specifiers |-> rest.specifiers]

kwPrepare == <<"p", "r", "e", "p", "a", "r", "e", " ">>
kwAs      == <<" ", "a", "s", " ">>
kwExecute == <<"e", "x", "e", "c", "u", "t", "e", " ">>
kwPs      == <<"p", "s", "_">>

\* the slot list of the execute command
ExecSlots(specifiers) == Join(<<",", " ">>, specifiers)

\* the two statements prepare builds: the declaration it executes and the
\* execute command it returns
prepare(text, id) ==
    LET s == SubFrom(text, 1, <<>>)
    IN  [specifiers |-> s.specifiers,
         replacedCmd |-> s.out,
         prepCmd |-> kwPrepare \o id \o kwAs \o s.out,
         execCmd |-> IF Len(s.specifiers) = 0
                     THEN kwExecute \o id
                     ELSE kwExecute \o id \o <<"(">>
                          \o ExecSlots(s.specifiers) \o <<")">>]


(***************************************************************************)
(* The parts of the program a specification leaves alone                   *)
(***************************************************************************)
NoDb == /\ mode = <<>> /\ dbUrl = "" /\ optionFile = "" /\ pc = ""
        /\ cfg = "" /\ handle = ""
        /\ session = "" /\ caught = "" /\ raised = ""
NoUpsert == /\ skip_cols = <<>> /\ update_cols = <<>> /\ columns = <<>>
            /\ batches = 0 /\ lastCall = <<>>
NoPrepare == cmd = <<>> /\ cmdId = <<>> /\ prepared = <<>>
NoCursor  == prepCache = <<>> /\ history = <<>>

(***************************************************************************)
(* prepare called on its own, on a cursor whose cache is empty             *)
(***************************************************************************)
TextAlphabet == {"%", "s", "(", ")", "."}
IdNumbers    == {12}

\* dict assignment  cache[k] = v
Put(cache, k, v) ==
    [x \in (DOMAIN cache) \cup {k} |-> IF x = k THEN v ELSE cache[x]]

\* self.execute(prepCmd) succeeded: prepare caches the execute command under
\* itself and returns it
Prepare ==
    /\ prepared = <<>>
    /\ LET p == prepare(cmd, cmdId)
       IN  /\ prepared' = <<[prepCmd |-> p.prepCmd, execCmd |-> p.execCmd,
                             specifiers |-> p.specifiers, raised |-> FALSE]>>
           /\ prepCache' = Put(prepCache, p.execCmd, p.execCmd)
    /\ UNCHANGED <<cmd, cmdId, history, dbVars, upVars>>

\* self.execute(prepCmd) raised: nothing is cached, nothing is returned
PrepareRaises ==
    /\ prepared = <<>>
    /\ LET p == prepare(cmd, cmdId)
       IN  prepared' = <<[prepCmd |-> p.prepCmd, execCmd |-> <<>>,
                          specifiers |-> p.specifiers, raised |-> TRUE]>>
    /\ UNCHANGED <<cmd, cmdId, prepCache, history, dbVars, upVars>>

InitPrepare ==
    /\ cmd \in SeqsUpTo(TextAlphabet, MaxTextLen)
    /\ cmdId \in {kwPs \o Str(n) : n \in IdNumbers}
    /\ prepared = <<>>
    /\ NoCursor /\ NoDb /\ NoUpsert

NextPrepare == Prepare \/ PrepareRaises

SpecPrepare == InitPrepare /\ [][NextPrepare]_vars

(***************************************************************************)
(* PrepareCursor.execPrepared on one cursor                                *)
(***************************************************************************)
\* the raw SQL texts the callers pass
Texts == { <<"x">>,
           <<"%", "s">>,
           <<"%", "(", "n", ")", "s", "%", "s">>,
           kwExecute \o kwPs \o <<"1">> }

\* (mutation) the identifier is the cache size itself
NewCmdId_noIncrement(cache) == kwPs \o Str(Cardinality(DOMAIN cache))

\* cmdId = f"ps_{len(self.prepCache) + 1}"
NewCmdId(cache) == kwPs \o Str(Cardinality(DOMAIN cache) + 1)

\* (mutation) the raw text is not stored
CacheAfterPrepare_dropsText(cache, c, execCmd) == Put(cache, execCmd, execCmd)

\* (mutation) the new entries replace the old ones
CacheAfterPrepare_evicts(cache, c, execCmd) ==
    Put(Put(<<>>, execCmd, execCmd), c, execCmd)

\* prepCache[cmd] = self.prepare(cmd, cmdId), the declaration having succeeded
CacheAfterPrepare(cache, c, execCmd) ==
    Put(Put(cache, execCmd, execCmd), c, execCmd)

Call(c, id, prepCmd, execCmd, error) ==
    [cmd |-> c, cmdId |-> id, prepCmd |-> prepCmd, execCmd |-> execCmd,
     error |-> error]

\* cache hit: the cached command is executed (and may fail on the server)
ExecPreparedHit(c) ==
    /\ Len(history) < MaxCalls
    /\ c \in DOMAIN prepCache
    /\ \E ok \in BOOLEAN :
         history' = Append(history,
             Call(c, <<>>, <<>>, prepCache[c], IF ok THEN "none" ELSE "execute"))
    /\ UNCHANGED <<prepCache, prepVars, dbVars, upVars>>

\* cache miss, the declaration succeeds: both keys are cached, then the
\* execute command is executed (and may fail on the server)
ExecPreparedMiss(c) ==
    /\ Len(history) < MaxCalls
    /\ c \notin DOMAIN prepCache
    /\ LET id == NewCmdId(prepCache)
           p  == prepare(c, id)
       IN  /\ prepCache' = CacheAfterPrepare(prepCache, c, p.execCmd)
           /\ \E ok \in BOOLEAN :
                history' = Append(history,
                    Call(c, id, p.prepCmd, p.execCmd,
                         IF ok THEN "none" ELSE "execute"))
    /\ UNCHANGED <<prepVars, dbVars, upVars>>

\* (mutation) the execute command is cached before the declaration is executed
ExecPreparedPrepareRaises_cachesFirst(c) ==
    /\ Len(history) < MaxCalls
    /\ c \notin DOMAIN prepCache
    /\ LET id == kwPs \o Str(Cardinality(DOMAIN prepCache) + 1)
           p  == prepare(c, id)
       IN  /\ history' = Append(history, Call(c, id, p.prepCmd, <<>>, "prepare"))
           /\ prepCache' = Put(prepCache, p.execCmd, p.execCmd)
    /\ UNCHANGED <<prepVars, dbVars, upVars>>

\* cache miss, the declaration raises inside prepare: the error leaves
\* execPrepared before either assignment to prepCache and before execute
ExecPreparedPrepareRaises(c) ==
    /\ Len(history) < MaxCalls
    /\ c \notin DOMAIN prepCache
    /\ LET id == NewCmdId(prepCache)
           p  == prepare(c, id)
       IN  history' = Append(history, Call(c, id, p.prepCmd, <<>>, "prepare"))
    /\ UNCHANGED <<prepCache, prepVars, dbVars, upVars>>

InitCursor ==
    /\ prepCache = <<>>
    /\ history = <<>>
    /\ NoPrepare /\ NoDb /\ NoUpsert

NextCursor ==
    \E c \in Texts :
        \/ ExecPreparedHit(c)
        \/ ExecPreparedMiss(c)
        \/ ExecPreparedPrepareRaises(c)

SpecCursor == InitCursor /\ [][NextCursor]_vars

(***************************************************************************)
(* database.__init__, the accessors and autocommit                         *)
(*                                                                         *)
(* An attribute of the handle is "unset" while no assignment has created   *)
(* it, "None" when it holds None, and otherwise holds a value.             *)
(***************************************************************************)
ModeAlphabet == {"r", "o", "w", "R", "O", "W"}

BoolStr(b) == IF b THEN "True" ELSE "False"

\* str.upper on one character
UpperChar(ch) ==
    CASE ch = "r" -> "R"
      [] ch = "o" -> "O"
      [] ch = "w" -> "W"
      [] OTHER    -> ch

upper(str) == [i \in 1..Len(str) |-> UpperChar(str[i])]

\* needle in hay
Contains(hay, needle) ==
    \E i \in 1..(Len(hay) - Len(needle) + 1) :
        SubSeq(hay, i, i + Len(needle) - 1) = needle

\* (mutation) the mode is matched as written
ReadOnly_caseSensitive(m) == Contains(m, <<"R", "O">>)

\* self.readonly = 'RO' in mode.upper()
ReadOnly(m) == Contains(upper(m), <<"R", "O">>)

\* the value of PGDB_<MODE>: not set, or a URL made of a scheme prefix and
\* the optional parts that follow it ("None" for a part that is absent)
Url(scheme, user, password, host, port, database) ==
    [set |-> TRUE, scheme |-> scheme, user |-> user, password |-> password,
     host |-> host, port |-> port, database |-> database]

NoUrl == [set |-> FALSE, scheme |-> "", user |-> "None", password |-> "None",
          host |-> "None", port |-> "None", database |-> "None"]

Schemes == {"postgresql://", "postgres://", "pgsql://", "mysql://"}

Urls == {NoUrl}
        \cup {Url(sc, "alice", "secret", "dbhost", "5555", "mydb") : sc \in Schemes}
        \cup {Url(sc, "None", "None", "dbhost", "None", "mydb") : sc \in Schemes}

\* db_url.replace("postgres://", "postgresql://")
\*       .replace("pgsql://", "postgresql://")
NormalizeScheme(scheme) ==
    IF scheme \in {"postgres://", "pgsql://"} THEN "postgresql://" ELSE scheme

\* pattern.match(db_url) is not None: every part after the scheme is optional
UrlMatches(url) == NormalizeScheme(url.scheme) = "postgresql://"

\* the JSON file: missing, or an object that has some of the five keys
Option(user, password, host, port, database) ==
    [exists |-> TRUE, user |-> user, password |-> password, host |-> host,
     port |-> port, database |-> database]

OptionFiles ==
    { [exists |-> FALSE, user |-> "None", password |-> "None",
       host |-> "None", port |-> "None", database |-> "None"],
      Option("u", "p", "h", "5432", "d"),
      Option("u", "None", "h", "None", "d") }

Fields(src) ==
    [user |-> src.user, password |-> src.password, host |-> src.host,
     port |-> src.port, database |-> src.database]

UnsetFields ==
    [user |-> "unset", password |-> "unset", host |-> "unset",
     port |-> "unset", database |-> "unset"]

NewHandle ==
    [readonly |-> "unset", connString |-> <<>>, engine |-> "unset",
     metadata |-> "unset", conn |-> "unset", cursor |-> "unset",
     available |-> "unset"]

NewSession ==
    [readonly |-> "unset", autocommit |-> "unset", statement_timeout |-> "unset"]

\* the calls of the try block that reach into the libraries, in order
Steps == <<"create_engine", "reflect", "raw_connection", "rollback",
           "set_session", "cursor", "set_timeout">>

\* the calls that go through SQLAlchemy, whose connection errors arrive as
\* sqlalchemy.exc.OperationalError; the others are calls on the psycopg2
\* connection and cursor
EngineSteps == {2, 3}

\* "".join([...]) of the connection string
ConnString(c) ==
    <<"postgresql://", c.user, ":", c.password, "@", c.host, ":", c.port,
      "/", c.database, "?application_name=">>

\* the handle once the first n library calls have returned
HandleAfter(n, m, c) ==
    [readonly   |-> BoolStr(ReadOnly(m)),
     connString |-> ConnString(c),
     engine     |-> IF n >= 1 THEN "set" ELSE "unset",
     metadata   |-> IF n >= 1 THEN "set" ELSE "unset",
     conn       |-> IF n >= 3 THEN "set" ELSE "unset",
     cursor     |-> IF n >= 6 THEN "set" ELSE "unset",
     available  |-> IF n >= 6 THEN "True" ELSE "unset"]

\* the session once the first n library calls have returned
SessionAfter(n, m) ==
    [readonly          |-> IF n >= 5 THEN BoolStr(ReadOnly(m)) ELSE "unset",
     autocommit        |-> IF n >= 5 THEN "True" ELSE "unset",
     statement_timeout |-> IF n >= 7 THEN "10min" ELSE "unset"]

\* (mutation) the handler forgets the cursor
OperationalErrorHandler_keepsCursor(h) ==
    [h EXCEPT !.available = "False", !.conn = "None",
              !.engine = "None", !.metadata = "None"]

\* except sa.exc.OperationalError:
OperationalErrorHandler(h) ==
    [h EXCEPT !.available = "False", !.conn = "None", !.cursor = "None",
              !.engine = "None", !.metadata = "None"]

\* the fields the configuration resolver assigns, when it assigns them
ResolvedFields == IF dbUrl.set THEN Fields(dbUrl) ELSE Fields(optionFile)

ConfigResolves ==
    \/ dbUrl.set /\ UrlMatches(dbUrl)
    \/ ~dbUrl.set /\ optionFile.exists

\* PGDB_<MODE> is not set and the file cannot be opened: open() raises
ConstructFileMissing ==
    /\ pc = "new"
    /\ ~dbUrl.set /\ ~optionFile.exists
    /\ handle' = [NewHandle EXCEPT !.readonly = BoolStr(ReadOnly(mode))]
    /\ pc' = "raised"
    /\ raised' = "FileNotFoundError"
    /\ UNCHANGED <<mode, dbUrl, optionFile, cfg, session, caught,
                   prepVars, curVars, upVars>>

\* PGDB_<MODE> is set but the pattern does not match: no field is assigned,
\* and reading self.user for the connection string raises
ConstructUrlNoMatch ==
    /\ pc = "new"
    /\ dbUrl.set /\ ~UrlMatches(dbUrl)
    /\ handle' = [NewHandle EXCEPT !.readonly = BoolStr(ReadOnly(mode))]
    /\ pc' = "raised"
    /\ raised' = "AttributeError"
    /\ UNCHANGED <<mode, dbUrl, optionFile, cfg, session, caught,
                   prepVars, curVars, upVars>>

\* every call returns
ConstructConnects ==
    /\ pc = "new"
    /\ ConfigResolves
    /\ cfg' = ResolvedFields
    /\ handle' = HandleAfter(7, mode, ResolvedFields)
    /\ session' = SessionAfter(7, mode)
    /\ pc' = "returned"
    /\ UNCHANGED <<mode, dbUrl, optionFile, caught, raised,
                   prepVars, curVars, upVars>>

\* a call through SQLAlchemy raises sa.exc.OperationalError: it is caught
ConstructCatches(k) ==
    /\ pc = "new"
    /\ ConfigResolves
    /\ k \in EngineSteps
    /\ cfg' = ResolvedFields
    /\ handle' = OperationalErrorHandler(HandleAfter(k - 1, mode, ResolvedFields))
    /\ session' = SessionAfter(k - 1, mode)
    /\ caught' = Steps[k]
    /\ pc' = "returned"
    /\ UNCHANGED <<mode, dbUrl, optionFile, raised, prepVars, curVars, upVars>>

\* a call raises anything else (a psycopg2 error, an argument error): it
\* leaves the constructor
ConstructPropagates(k) ==
    /\ pc = "new"
    /\ ConfigResolves
    /\ k \in 1..Len(Steps)
    /\ cfg' = ResolvedFields
    /\ handle' = HandleAfter(k - 1, mode, ResolvedFields)
    /\ session' = SessionAfter(k - 1, mode)
    /\ raised' = Steps[k]
    /\ pc' = "raised"
    /\ UNCHANGED <<mode, dbUrl, optionFile, caught, prepVars, curVars, upVars>>

\* database.autocommit(auto) on a handle that has a connection
Autocommit(auto) ==
    /\ pc = "returned"
    /\ handle.conn = "set"
    /\ session' = [session EXCEPT !.autocommit = BoolStr(auto)]
    /\ UNCHANGED <<mode, dbUrl, optionFile, pc, cfg, handle, caught, raised,
                   prepVars, curVars, upVars>>

getEngine == handle.engine
getConn == handle.conn
getCursor == handle.cursor
getConnCursor == <<handle.conn, handle.cursor>>
getEngineConnCursor == <<handle.engine, handle.conn, handle.cursor>>

InitDb ==
    /\ mode \in SeqsUpTo(ModeAlphabet, MaxModeLen)
    /\ dbUrl \in Urls
    /\ optionFile \in OptionFiles
    /\ pc = "new"
    /\ cfg = UnsetFields
    /\ handle = NewHandle
    /\ session = NewSession
    /\ caught = "none"
    /\ raised = "none"
    /\ NoPrepare /\ NoCursor /\ NoUpsert

NextDb ==
    \/ ConstructFileMissing
    \/ ConstructUrlNoMatch
    \/ ConstructConnects
    \/ \E k \in 1..Len(Steps) : ConstructCatches(k)
    \/ \E k \in 1..Len(Steps) : ConstructPropagates(k)
    \/ \E auto \in BOOLEAN : Autocommit(auto)

SpecDb == InitDb /\ [][NextDb]_vars

(***************************************************************************)
(* create_upsert_method: the callback `method`, invoked once per batch     *)
(***************************************************************************)
\* the columns of the table as reflected into the metadata
TableColumns == <<[name |-> "id"], [name |-> "name"], [name |-> "ts"]>>

SkipNames == {"id", "ts", "nope"}
MaxSkipCols == 2

\* update_cols: None, or a dict from column name to SQL expression
UpdateColsChoices ==
    { <<>>,
      [k \in {"ts"} |-> "now()"],
      [k \in {"id"} |-> "default"],
      [k \in {"id", "ts"} |-> IF k = "id" THEN "default" ELSE "now()"] }

\* the column keys pandas passes with a batch
KeyChoices == { <<"id", "name", "ts">>, <<"name", "ts">>, <<"id", "name">> }

MaxRows == 2

\* Column.__eq__(other): the SQL expression  column = other
ColumnEq(column, other) ==
    [left |-> <<"Column", column.name>>, right |-> <<"literal", other>>]

\* the truth value of such an expression: are its two operands the same object
Truth(expr) == expr.left = expr.right

\* [col for col in sql_table._columns if col.name == col]: inside the
\* comprehension `col` is the Column, so the name of each column is compared
\* with that column, not with the skip-column of the enclosing loop
SkipColumns(cols, skip) ==
    SelectSeq(cols, LAMBDA col : Truth(ColumnEq(col, col.name)))

\* sql_table._columns.remove(instance)
Remove(cols, instance) == SelectSeq(cols, LAMBDA c : c # instance)

\* for col in skip_cols: ... remove the first match, if any
RECURSIVE RemoveSkipColumns(_, _)
RemoveSkipColumns(cols, skips) ==
    IF skips = <<>> THEN cols
    ELSE LET skip_columns == SkipColumns(cols, Head(skips))
             remaining    == IF Len(skip_columns) > 0
                             THEN Remove(cols, skip_columns[1])
                             ELSE cols
         IN  RemoveSkipColumns(remaining, Tail(skips))

\* dict(zip(keys, data)) for the r-th row of the batch
RowDict(keys, r) == [k \in Range(keys) |-> <<r, k>>]

\* for col in skip_cols: del row[col]   (raises KeyError on a missing key)
RECURSIVE DelKeys(_, _)
DelKeys(row, skips) ==
    IF skips = <<>> THEN [error |-> "none", row |-> row]
    ELSE IF Head(skips) \notin DOMAIN row THEN [error |-> "KeyError", row |-> row]
    ELSE DelKeys([k \in (DOMAIN row) \ {Head(skips)} |-> row[k]], Tail(skips))

ColumnNames(cols) == {cols[i].name : i \in 1..Len(cols)}

\* {exc_k.key: exc_k for exc_k in insert_stmt.excluded
\*  if exc_k.key not in skip_cols}, then .update(update_cols)
UpdateStmt(cols, skips, overrides) ==
    LET kept == ColumnNames(cols) \ Range(skips)
    IN  [k \in kept \cup (DOMAIN overrides) |->
            IF k \in DOMAIN overrides THEN overrides[k] ELSE <<"excluded", k>>]

\* a batch whose rows all hold every skip-column: the upsert is executed
MethodUpserts(keys, n) ==
    /\ batches < MaxBatches
    /\ DelKeys(RowDict(keys, 1), skip_cols).error = "none"
    /\ LET sql_columns == RemoveSkipColumns(columns, skip_cols)
           rows == [r \in 1..n |-> DelKeys(RowDict(keys, r), skip_cols).row]
       IN  /\ columns' = sql_columns
           /\ lastCall' = <<[error |-> "none", rows |-> rows,
                             table |-> ColumnNames(sql_columns),
                             set_ |-> UpdateStmt(sql_columns, skip_cols,
                                                 update_cols)]>>
    /\ batches' = batches + 1
    /\ UNCHANGED <<skip_cols, update_cols, prepVars, curVars, dbVars>>

\* a batch with a row that lacks a skip-column: del raises KeyError after the
\* table has been treated, and no statement is built
MethodKeyError(keys, n) ==
    /\ batches < MaxBatches
    /\ DelKeys(RowDict(keys, 1), skip_cols).error = "KeyError"
    /\ LET sql_columns == RemoveSkipColumns(columns, skip_cols)
       IN  /\ columns' = sql_columns
           /\ lastCall' = <<[error |-> "KeyError", rows |-> <<>>,
                             table |-> ColumnNames(sql_columns),
                             set_ |-> <<>>]>>
    /\ batches' = batches + 1
    /\ UNCHANGED <<skip_cols, update_cols, prepVars, curVars, dbVars>>

InitUpsert ==
    /\ skip_cols \in SeqsUpTo(SkipNames, MaxSkipCols)
    /\ update_cols \in UpdateColsChoices
    /\ columns = TableColumns
    /\ batches = 0
    /\ lastCall = <<>>
    /\ NoPrepare /\ NoCursor /\ NoDb

NextUpsert ==
    \E keys \in KeyChoices, n \in 1..MaxRows :
        \/ MethodUpserts(keys, n)
        \/ MethodKeyError(keys, n)

SpecUpsert == InitUpsert /\ [][NextUpsert]_vars

(***************************************************************************)
(* Properties of prepare (checked under SpecPrepare)                       *)
(***************************************************************************)
\* the placeholders of a text, read off position by position
PlaceholderStarts(text) == {i \in 1..Len(text) : MatchLen(text, i) > 0}

InsidePlaceholder(text, i) ==
    \E j \in PlaceholderStarts(text) : j < i /\ i < j + MatchLen(text, j)

RankOf(text, i) == Cardinality({j \in PlaceholderStarts(text) : j <= i})

KthStart(text, k) == CHOOSE i \in PlaceholderStarts(text) : RankOf(text, i) = k

\* the k-th placeholder of the text, as written
KthPlaceholder(text, k) ==
    SubSeq(text, KthStart(text, k),
           KthStart(text, k) + MatchLen(text, KthStart(text, k)) - 1)

\* $k
Numbered(k) == <<"$">> \o Str(k)

\* the text with its k-th placeholder replaced by $k, from index i on
RECURSIVE NumberedFrom(_, _)
NumberedFrom(text, i) ==
    IF i > Len(text) THEN <<>>
    ELSE (IF i \in PlaceholderStarts(text) THEN Numbered(RankOf(text, i))
          ELSE IF InsidePlaceholder(text, i) THEN <<>>
          ELSE <<text[i]>>) \o NumberedFrom(text, i + 1)

\* slots[1], slots[2], ..., separated by a comma and a blank
RECURSIVE CommaList(_)
CommaList(slots) ==
    IF Len(slots) = 0 THEN <<>>
    ELSE IF Len(slots) = 1 THEN slots[1]
    ELSE CommaList(SubSeq(slots, 1, Len(slots) - 1))
         \o <<",", " ">> \o slots[Len(slots)]

ExecuteWithSlots(id, slots) ==
    IF Len(slots) = 0 THEN kwExecute \o id
    ELSE kwExecute \o id \o <<"(">> \o CommaList(slots) \o <<")">>

PrepareReturned == Len(prepared) = 1 /\ ~prepared[1].raised

DeclarationNumbersPlaceholders ==
    prepared[1].prepCmd = kwPrepare \o cmdId \o kwAs \o NumberedFrom(cmd, 1)

\* C4 (as stated): for a text with N placeholders, prepare issues
\* 'prepare <id> as <text>' with the placeholders replaced left to right by
\* $1..$N and returns an execute command whose N slots are $1..$N ('execute
\* <id>' alone when N = 0).
C4_SlotsAreNumbered ==
    PrepareReturned =>
        LET N == Cardinality(PlaceholderStarts(cmd))
        IN  /\ DeclarationNumbersPlaceholders
            /\ prepared[1].execCmd =
                   ExecuteWithSlots(cmdId, [k \in 1..N |-> Numbered(k)])

\* C4 (amended): for a text with N placeholders, prepare issues
\* 'prepare <id> as <text>' with the placeholders replaced left to right by
\* $1..$N, and returns an execute command for <id> with exactly N slots
\* separated by ', ', the k-th slot being the k-th placeholder as written in
\* the text (%s or %(name)s), not $k; when N = 0 it returns 'execute <id>'.
C4_SlotsAreOriginalPlaceholders ==
    PrepareReturned =>
        LET N == Cardinality(PlaceholderStarts(cmd))
        IN  /\ DeclarationNumbersPlaceholders
            /\ prepared[1].execCmd =
                   ExecuteWithSlots(cmdId,
                                    [k \in 1..N |-> KthPlaceholder(cmd, k)])
            /\ N = 0 => prepared[1].execCmd = kwExecute \o cmdId

\* a text mixing a named and a positional placeholder has been prepared
C4_Witness ==
    /\ PrepareReturned
    /\ Cardinality(PlaceholderStarts(cmd)) = 2
    /\ \E i, j \in PlaceholderStarts(cmd) :
           MatchLen(cmd, i) = 2 /\ MatchLen(cmd, j) > 2

(***************************************************************************)
(* Properties of execPrepared (checked under SpecCursor)                   *)
(***************************************************************************)
Calls == 1..Len(history)

SameText(i, j) == history[i].cmd = history[j].cmd

\* the call issued a PREPARE
IssuedPrepare(i) == history[i].prepCmd # <<>>

\* the call issued a PREPARE and the server accepted it
Declared(i) == IssuedPrepare(i) /\ history[i].error # "prepare"

\* the call got as far as executing an execute command
PastPrepare(i) == history[i].error # "prepare"

AllSucceeded == \A i \in Calls : history[i].error = "none"

FirstCallOfText(i) == ~ \E j \in Calls : j < i /\ SameText(i, j)

TextsPassed == {history[i].cmd : i \in Calls}

IdOf(n) == kwPs \o Str(n)

MaxIdNumber == 2 * MaxCalls + 1

\* the number n of the identifier ps_<n> a call handed to prepare
IdNumber(i) == CHOOSE n \in 0..MaxIdNumber : history[i].cmdId = IdOf(n)

\* what the calls before call i have put in the cache
KeysBefore(i) ==
    {history[j].cmd : j \in {k \in Calls : k < i /\ PastPrepare(k)}}
    \cup {history[j].execCmd : j \in {k \in Calls : k < i /\ Declared(k)}}

C2_SizeIsDistinctTexts ==
    AllSucceeded => Cardinality(DOMAIN prepCache) = Cardinality(TextsPassed)

CacheKeysAreTextsAndCommands ==
    LET texts    == {history[i].cmd : i \in {k \in Calls : PastPrepare(k)}}
        commands == {history[i].execCmd : i \in {k \in Calls : Declared(k)}}
        size     == Cardinality(DOMAIN prepCache)
    IN  /\ DOMAIN prepCache = texts \cup commands
        /\ Cardinality(texts) <= size
        /\ size <= 2 * Cardinality(texts)
        /\ texts \cap commands = {} => size = 2 * Cardinality(texts)

CacheOnlyGrows == DOMAIN prepCache \subseteq DOMAIN prepCache'

\* C2 (amended): the keys of the cache are the raw texts passed (by calls
\* that got past PREPARE) together with the execute commands generated for
\* them, because prepare stores each execute command under itself; the
\* number of entries is therefore between the number of distinct texts and
\* twice that number, and exactly twice it when no text is itself one of
\* the execute commands.  The cache only grows: no key is ever removed.
C2_SizeCountsTextsAndCommands ==
    [] CacheKeysAreTextsAndCommands /\ [][CacheOnlyGrows]_vars

\* three distinct texts have been passed, one of them twice
C2_Witness ==
    /\ AllSucceeded
    /\ Len(history) = 4
    /\ Cardinality(TextsPassed) = 3
    /\ Cardinality(DOMAIN prepCache) > 3

C10_RetryKeepsIdentifier ==
    \A i, j \in Calls :
        i < j /\ SameText(i, j) /\ history[i].error = "prepare" =>
            /\ IssuedPrepare(j)
            /\ history[j].cmdId = history[i].cmdId

\* the step of a call whose PREPARE fails: nothing is executed and the cache
\* is what it was, with no entry for the text or for the execute command
FailedPrepareLeavesCache ==
    (Len(history') = Len(history) + 1
     /\ history'[Len(history')].error = "prepare")
    => LET call == history'[Len(history')]
       IN  /\ prepCache' = prepCache
           /\ call.execCmd = <<>>
           /\ call.cmd \notin DOMAIN prepCache'
           /\ prepare(call.cmd, call.cmdId).execCmd \notin DOMAIN prepCache'

RetryWithUnchangedCache ==
    \A i, j \in Calls :
        (/\ i < j /\ SameText(i, j) /\ history[i].error = "prepare"
         /\ \A k \in Calls : i < k /\ k < j => ~Declared(k))
        => /\ IssuedPrepare(j)
           /\ history[j].cmdId = history[i].cmdId
           /\ history[j].prepCmd = history[i].prepCmd

\* C10 (amended): if the PREPARE issued on a cache miss fails, the error
\* propagates, no EXECUTE is issued and the cache is left exactly as it
\* was; a later call with the same text issues the same PREPARE again,
\* under the same identifier, provided no other PREPARE has been accepted
\* in between (one that has been moves the next identifier on, and may
\* even cache the text as its execute command).
C10_FailedPrepareIsRetried ==
    [] RetryWithUnchangedCache /\ [][FailedPrepareLeavesCache]_vars

\* a PREPARE failed and the same text was then prepared under the same id
C10_Witness ==
    \E i, j \in Calls :
        /\ i < j /\ SameText(i, j)
        /\ history[i].error = "prepare"
        /\ Declared(j) /\ history[j].cmdId = history[i].cmdId
        /\ \E k \in Calls : k < i /\ Declared(k)

(***************************************************************************)
(* Properties of the database handle (checked under SpecDb)                *)
(***************************************************************************)
\* C5: an operational error of a connection attempt is caught: the
\* constructor returns without raising and without a further attempt, the
\* handle has available = false and every accessor returns None; and a
\* handle returned with available = true has engine, connection and cursor.
C5_UnavailableHandleIsEmpty ==
    /\ caught # "none" =>
           /\ pc = "returned" /\ raised = "none"
           /\ handle.available = "False"
           /\ getEngine = "None" /\ getConn = "None" /\ getCursor = "None"
           /\ getConnCursor = <<"None", "None">>
           /\ getEngineConnCursor = <<"None", "None", "None">>
           /\ session = NewSession
    /\ pc = "returned" =>
           /\ handle.available \in {"True", "False"}
           /\ handle.available = "True" =>
                  getEngineConnCursor = <<"set", "set", "set">>
           /\ handle.available = "False" => caught # "none"

\* the second connection attempt failed, after the engine had been created
C5_Witness ==
    /\ pc = "returned"
    /\ caught = "raw_connection"
    /\ handle.available = "False"

\* C6: with PGDB_<MODE> set to a URL that the pattern does not match, the
\* constructor raises nothing while resolving the configuration, goes on to
\* connect, and ends as for any connection failure: returned, unavailable.
C6_MalformedUrlFailsAsConnection ==
    (pc # "new" /\ dbUrl.set /\ ~UrlMatches(dbUrl)) =>
        /\ raised = "none"
        /\ pc = "returned"
        /\ handle.available = "False"

IsRo(m) == Len(m) = 2 /\ m[1] \in {"r", "R"} /\ m[2] \in {"o", "O"}
IsRw(m) == Len(m) = 2 /\ m[1] \in {"r", "R"} /\ m[2] \in {"w", "W"}

ReadOnlyFollowsMode ==
    pc # "new" =>
        /\ IsRo(mode) => handle.readonly = "True"
        /\ IsRw(mode) => handle.readonly = "False"
        /\ session.readonly # "unset" => session.readonly = handle.readonly

ConnectSetsSession ==
    (pc = "new" /\ pc' = "returned" /\ handle'.available = "True") =>
        /\ session'.autocommit = "True"
        /\ session'.readonly = handle'.readonly
        /\ IsRo(mode) => session'.readonly = "True"
        /\ IsRw(mode) => session'.readonly = "False"

\* C9: mode "ro" in any letter case makes the handle, and the session of a
\* successful connect, read-only; mode "rw" in any letter case makes them
\* read-write; the session of a successful connect is in autocommit.
C9_ReadOnlyIsCaseInsensitive ==
    [] ReadOnlyFollowsMode /\ [][ConnectSetsSession]_vars

\* a handle connected with mode "Ro"
C9_Witness ==
    /\ mode = <<"R", "o">>
    /\ pc = "returned" /\ handle.available = "True"
    /\ session.readonly = "True" /\ session.autocommit = "True"

(***************************************************************************)
(* Properties of the upsert callback (checked under SpecUpsert)            *)
(***************************************************************************)
\* C7: after an invocation that built its statement, no skip-column is left
\* in the table's column list or in any row of the batch.
C7_SkipColumnsLeaveTableAndRows ==
    (Len(lastCall) = 1 /\ lastCall[1].error = "none") =>
        /\ \A col \in Range(skip_cols) : col \notin ColumnNames(columns)
        /\ \A r \in DOMAIN lastCall[1].rows :
               \A col \in Range(skip_cols) : col \notin DOMAIN lastCall[1].rows[r]

\* C8: whatever the skip-columns and the overrides, no key of the SET clause
\* of an emitted statement is a skip-column.
C8_SetClauseHasNoSkipColumn ==
    (Len(lastCall) = 1 /\ lastCall[1].error = "none") =>
        (DOMAIN lastCall[1].set_) \cap Range(skip_cols) = {}

====
